---- MODULE Spec2Model ----
(***************************************************************************)
(* Model of examples/ui/text.rs: the Startup system `setup` spawns four   *)
(* UI texts (ColorText, FpsText, WavyText and an unmarked one) and a      *)
(* camera; every frame the three Update systems text_update_system,       *)
(* text_color_system and text_wave_system run once each, in an order the  *)
(* scheduler chooses.                                                     *)
(*                                                                         *)
(* Numbers.  An f32 is the integer n standing for n * 2^-27; in the range *)
(* [2^-4, 16) every f32 is such a multiple, and +, / and % are modelled    *)
(* with IEEE round-to-nearest-even to a 24 bit significand.  An f64 FPS    *)
(* sample is the integer m standing for m * 2^-8 (exact in f64).  f32::sin *)
(* and the product with PI are evaluated in fixed point: angles in units   *)
(* of 2^-12 rad, sines in units of 10^-4.  A String is the sequence of its *)
(* characters.  An Option is a sequence of length 0 (None) or 1 (Some).    *)
(***************************************************************************)
EXTENDS Integers, Sequences, FiniteSets, TLC

VARIABLES
    pc,            \* schedule about to run: "Startup", "First" or "Update"
    world,         \* the spawned entities, in spawn order
    elapsed,       \* Time::elapsed_seconds() of the current frame (f32)
    diagnostics,   \* DiagnosticsStore: path -> smoothed value (Option<f64>)
    ran,           \* Update systems that have run in the current frame
    wave_seconds,  \* the local `seconds` of line 178, per entity and section
    frame_start,   \* history: world when the current frame's Update began
    prev_in,       \* history: Some(inputs of the previous frame)
    last_present   \* history: the most recent present FPS sample

vars == <<pc, world, elapsed, diagnostics, ran, wave_seconds,
          frame_start, prev_in, last_present>>

----------------------------------------------------------------------------
(* Bounds of the model *)

MaxTime == 4
MaxSample == 3

----------------------------------------------------------------------------
(* f32 arithmetic *)

F32One == 2^27

RECURSIVE UlpOf(_, _)
UlpOf(n, u) == IF n \div u < 2^24 THEN u ELSE UlpOf(n, 2 * u)

\* whole + num/den (0 <= num < den) rounded to the nearest f32, ties to even
F32RoundRat(whole, num, den) ==
    LET u    == UlpOf(whole, 1)
        r    == whole % u
        base == whole - r
        twice == 2 * (r * den + num)
    IN  IF twice > u * den \/ (twice = u * den /\ (base \div u) % 2 = 1)
        THEN base + u
        ELSE base

F32Add(x, y) == F32RoundRat(x + y, 0, 1)

\* (a as f32) / (b as f32) for small non-negative integers a, b
F32Div(a, b) ==
    F32RoundRat((a \div b) * F32One + ((a % b) * F32One) \div b,
                ((a % b) * F32One) % b, b)

\* (num/den) * x for a literal num/den that is exact in f32
F32MulLit(num, den, x) == F32RoundRat((x * num) \div den, (x * num) % den, den)

F32Rem(x, y) == x % y

----------------------------------------------------------------------------
(* f32::sin in fixed point *)

AngleOne == 2^12
SinOne == 10^4
Pi == 12868

\* sin(k * pi/64) * SinOne for k = 0..32
SinTable == <<0, 491, 980, 1467, 1951, 2430, 2903, 3369, 3827, 4276, 4714,
              5141, 5556, 5957, 6344, 6716, 7071, 7410, 7730, 8032, 8315,
              8577, 8819, 9040, 9239, 9415, 9569, 9700, 9808, 9892, 9952,
              9988, 10000>>

\* r in [0, pi/2], in angle units
SinQuarter(r) ==
    LET steps == Len(SinTable) - 1
        half  == Pi \div 2
        k     == (r * steps) \div half
        f     == (r * steps) % half
    IN  IF k >= steps THEN SinTable[steps + 1]
        ELSE SinTable[k + 1] + ((SinTable[k + 2] - SinTable[k + 1]) * f) \div half

\* a >= 0 in angle units
Sin(a) ==
    LET r == a % (2 * Pi)
        h == IF r >= Pi THEN r - Pi ELSE r
        q == IF 2 * h > Pi THEN Pi - h ELSE h
    IN  IF r >= Pi THEN 0 - SinQuarter(q) ELSE SinQuarter(q)

\* an f32 number of radians as an angle
ToAngle(x) == x \div (F32One \div AngleOne)

----------------------------------------------------------------------------
(* format!("{value:.2}") of a non-negative f64 *)

F64One == 2^8

DigitChar(d) == <<"0", "1", "2", "3", "4", "5", "6", "7", "8", "9">>[d + 1]

RECURSIVE ToDecimal(_)
ToDecimal(n) ==
    IF n < 10 THEN <<DigitChar(n)>>
    ELSE Append(ToDecimal(n \div 10), DigitChar(n % 10))

\* mutant: the digits are cut, not rounded
RoundHalfEven_Truncate(num, den) == num \div den

\* num/den rounded to the nearest integer, ties to even
RoundHalfEven(num, den) ==
    LET q == num \div den
        r == num % den
    IN  IF 2 * r > den \/ (2 * r = den /\ q % 2 = 1) THEN q + 1 ELSE q

\* the exact decimal expansion of m * 2^-8, cut after two fraction digits
FormatFixed2(m) ==
    LET h == RoundHalfEven(m * 100, F64One)
    IN  ToDecimal(h \div 100)
          \o <<".", DigitChar((h \div 10) % 10), DigitChar(h % 10)>>

----------------------------------------------------------------------------
(* Colors, vectors, text sections *)

ColorOne == 2 * SinOne

\* Color::srgb(r, g, b), channels as numerators over ColorOne
Srgb(r, g, b) == [r |-> r, g |-> g, b |-> b]

WHITE == Srgb(ColorOne, ColorOne, ColorOne)
GOLD == Srgb(ColorOne, (ColorOne * 215) \div 255, 0)

\* Vec2::new(x, y), components in units of 1/SinOne
Vec2(x, y) == <<x, y>>

DefaultTextStyle == [font |-> "default", font_size |-> "default", color |-> WHITE]

TextStyle(font, font_size, color) ==
    [font |-> font, font_size |-> font_size, color |-> color]

TextSection(value, style, offset) ==
    [value |-> value, font |-> style.font, font_size |-> style.font_size,
     color |-> style.color, offset |-> offset]

NumWavySections == 100

Hello == <<"h", "e", "l", "l", "o", "\n", "b", "e", "v", "y", "!">>
FpsLabel == <<"F", "P", "S", ":", " ">>

\* the text of the last, unmarked entity; its characters are never read
PlainText(default_font) ==
    IF default_font
    THEN <<"From an &str into a TextBundle with the default font!">>
    ELSE <<"Default font disabled">>

\* the entities `setup` spawns, in spawn order
SetupWorld(default_font) ==
    << [marker |-> "Camera2d", text |-> <<>>],
       [marker |-> "ColorText",
        text |-> << TextSection(Hello,
                       [DefaultTextStyle EXCEPT !.font = "fonts/FiraSans-Bold.ttf",
                                                !.font_size = "80.0"],
                       Vec2(0, 0)) >>],
       [marker |-> "FpsText",
        text |-> << TextSection(FpsLabel,
                       [DefaultTextStyle EXCEPT !.font = "fonts/FiraSans-Bold.ttf",
                                                !.font_size = "50.0"],
                       Vec2(0, 0)),
                    TextSection(<<>>,
                       IF default_font
                       THEN [DefaultTextStyle EXCEPT !.font_size = "40.0",
                                                     !.color = GOLD]
                       ELSE TextStyle("fonts/FiraMono-Medium.ttf", "40.0", GOLD),
                       Vec2(0, 0)) >>],
       [marker |-> "WavyText",
        text |-> [k \in 1..NumWavySections |->
                    TextSection(ToDecimal((k - 1) % 10),
                       TextStyle("fonts/FiraMono-Medium.ttf", "10.0", GOLD),
                       Vec2(0, (k - 1) * SinOne))]],
       [marker |-> "",
        text |-> << TextSection(PlainText(default_font),
                       IF default_font THEN DefaultTextStyle
                       ELSE [DefaultTextStyle EXCEPT
                               !.font = "fonts/FiraMono-Medium.ttf"],
                       Vec2(0, 0)) >>] >>

----------------------------------------------------------------------------
(* The three Update systems, as functions of the world and their resources *)

Systems == {"text_update_system", "text_color_system", "text_wave_system"}

\* Query<&mut Text, With<marker>>
Query(w, marker) == {e \in DOMAIN w : w[e].marker = marker /\ w[e].text # <<>>}

\* mutant: (lit * seconds).sin() without "/ 2.0 + 0.5"
PulseChannel_NoBias(num, den, seconds) ==
    2 * Sin(ToAngle(F32MulLit(num, den, seconds)))

\* (lit * seconds).sin() / 2.0 + 0.5, as a numerator over ColorOne
PulseChannel(num, den, seconds) ==
    Sin(ToAngle(F32MulLit(num, den, seconds))) + SinOne

PulseColor(seconds) ==
    Srgb(PulseChannel(5, 4, seconds),
         PulseChannel(3, 4, seconds),
         PulseChannel(1, 2, seconds))

\* mutant: the query lacks With<ColorText>
text_color_system_NoFilter(w, time) ==
    [e \in DOMAIN w |->
        IF w[e].text # <<>>
        THEN [w[e] EXCEPT !.text[1].color = PulseColor(time)]
        ELSE w[e]]

text_color_system(w, time) ==
    [e \in DOMAIN w |->
        IF e \in Query(w, "ColorText")
        THEN [w[e] EXCEPT !.text[1].color = PulseColor(time)]
        ELSE w[e]]

\* diagnostics.get(path): Option<&Diagnostic>
DiagnosticsGet(store, path) ==
    IF path \in DOMAIN store THEN <<store[path]>> ELSE <<>>

\* mutant: a missing sample is written as the default 0.0
FpsValue_OrDefault(store) ==
    LET fps == DiagnosticsGet(store, "fps")
    IN  IF fps # <<>> /\ fps[1] # <<>> THEN <<FormatFixed2(fps[1][1])>>
        ELSE <<FormatFixed2(0)>>

\* mutant: a missing sample clears the text
FpsValue_Clear(store) ==
    LET fps == DiagnosticsGet(store, "fps")
    IN  IF fps # <<>> /\ fps[1] # <<>> THEN <<FormatFixed2(fps[1][1])>>
        ELSE << <<>> >>

\* what text_update_system writes to sections[1].value, if anything
FpsValue(store) ==
    LET fps == DiagnosticsGet(store, "fps")
    IN  IF fps # <<>> /\ fps[1] # <<>> THEN <<FormatFixed2(fps[1][1])>> ELSE <<>>

\* mutant: push_str instead of assignment
text_update_system_Append(w, store) ==
    [e \in DOMAIN w |->
        IF e \in Query(w, "FpsText") /\ FpsValue(store) # <<>>
        THEN [w[e] EXCEPT !.text[2].value = @ \o FpsValue(store)[1]]
        ELSE w[e]]

\* mutant: sections[0] instead of sections[1]
text_update_system_Section0(w, store) ==
    [e \in DOMAIN w |->
        IF e \in Query(w, "FpsText") /\ FpsValue(store) # <<>>
        THEN [w[e] EXCEPT !.text[1].value = FpsValue(store)[1]]
        ELSE w[e]]

text_update_system(w, store) ==
    [e \in DOMAIN w |->
        IF e \in Query(w, "FpsText") /\ FpsValue(store) # <<>>
        THEN [w[e] EXCEPT !.text[2].value = FpsValue(store)[1]]
        ELSE w[e]]

\* mutant: % 3.0
WavePhase_Mod3(time, i) == F32Rem(F32Add(time, F32Div(i, 10)), 3 * F32One)

\* (time.elapsed_seconds() + (i as f32 / 10.0)) % 2.0
WavePhase(time, i) == F32Rem(F32Add(time, F32Div(i, 10)), 2 * F32One)

\* mutant: the sine is shifted to [0, 2] before it is scaled
WaveOffset_Shifted(seconds) ==
    Vec2(0, (Sin((ToAngle(seconds) * Pi) \div AngleOne) + SinOne) * 40)

\* Vec2::new(0.0, f32::sin(seconds * PI) * 40.0)
WaveOffset(seconds) ==
    Vec2(0, Sin((ToAngle(seconds) * Pi) \div AngleOne) * 40)

\* mutant: section.offset += instead of section.offset =
text_wave_system_Accumulate(w, time) ==
    [e \in DOMAIN w |->
        IF e \in Query(w, "WavyText")
        THEN [w[e] EXCEPT !.text =
                [k \in 1..Len(w[e].text) |->
                    [w[e].text[k] EXCEPT
                        !.offset = Vec2(@[1],
                            @[2] + WaveOffset(WavePhase(time, k - 1))[2])]]]
        ELSE w[e]]

text_wave_system(w, time) ==
    [e \in DOMAIN w |->
        IF e \in Query(w, "WavyText")
        THEN [w[e] EXCEPT !.text =
                [k \in 1..Len(w[e].text) |->
                    [w[e].text[k] EXCEPT
                        !.offset = WaveOffset(WavePhase(time, k - 1))]]]
        ELSE w[e]]

WaveSeconds(w, time) ==
    [e \in Query(w, "WavyText") |->
        [k \in 1..Len(w[e].text) |-> WavePhase(time, k - 1)]]

----------------------------------------------------------------------------
(* Inputs *)

\* the clock: the f32 nearest to 3k/10 seconds
Times == {F32Div(3 * k, 10) : k \in 0..MaxTime}

\* Diagnostic::smoothed(): None, k/8 (0.125 and 0.375 are ties), 59.996...
Smoothed == {<<>>} \cup {<<32 * k>> : k \in 0..MaxSample} \cup {<<15359>>}

----------------------------------------------------------------------------
(* The schedule *)

Init ==
    /\ pc = "Startup"
    /\ world = <<>>
    /\ elapsed = 0
    /\ diagnostics = [p \in {"fps"} |-> <<>>]
    /\ ran = {}
    /\ wave_seconds = <<>>
    /\ frame_start = <<>>
    /\ prev_in = <<>>
    /\ last_present = <<>>

\* Startup: setup
Setup ==
    /\ pc = "Startup"
    /\ \E default_font \in BOOLEAN : world' = SetupWorld(default_font)
    /\ pc' = "First"
    /\ UNCHANGED <<elapsed, diagnostics, ran, wave_seconds, frame_start,
                   prev_in, last_present>>

\* First: the engine advances the clock and the diagnostics
BeginFrame ==
    /\ pc = "First"
    /\ \E t \in Times, s \in Smoothed :
          /\ t >= elapsed
          /\ elapsed' = t
          /\ diagnostics' = [diagnostics EXCEPT !["fps"] = s]
          /\ last_present' = IF s # <<>> THEN s ELSE last_present
    /\ prev_in' = IF ran = Systems
                  THEN <<[elapsed |-> elapsed, diagnostics |-> diagnostics]>>
                  ELSE <<>>
    /\ frame_start' = world
    /\ ran' = {}
    /\ pc' = "Update"
    /\ UNCHANGED <<world, wave_seconds>>

RunSystem(sys, w) ==
    /\ pc = "Update"
    /\ sys \notin ran
    /\ world' = w
    /\ ran' = ran \cup {sys}
    /\ pc' = IF ran' = Systems THEN "First" ELSE "Update"
    /\ UNCHANGED <<elapsed, diagnostics, frame_start, prev_in, last_present>>

TextUpdateSystem ==
    /\ RunSystem("text_update_system", text_update_system(world, diagnostics))
    /\ UNCHANGED wave_seconds

TextColorSystem ==
    /\ RunSystem("text_color_system", text_color_system(world, elapsed))
    /\ UNCHANGED wave_seconds

TextWaveSystem ==
    /\ RunSystem("text_wave_system", text_wave_system(world, elapsed))
    /\ wave_seconds' = WaveSeconds(world, elapsed)

Next ==
    \/ Setup
    \/ BeginFrame
    \/ TextUpdateSystem
    \/ TextColorSystem
    \/ TextWaveSystem

Spec == Init /\ [][Next]_vars

----------------------------------------------------------------------------
(* Vocabulary of the properties *)

Abs(x) == IF x < 0 THEN 0 - x ELSE x

Elements(marker) == Query(world, marker)

\* the step is a run of the system sys
Stepped(sys) == sys \notin ran /\ sys \in ran'

HasRun(sys) == sys \in ran

\* text_wave_system has run at least once since startup
WaveHasRun == DOMAIN wave_seconds # {}

SampleAbsent == "fps" \notin DOMAIN diagnostics \/ diagnostics["fps"] = <<>>

CurrentInputs == [elapsed |-> elapsed, diagnostics |-> diagnostics]

Digits == {DigitChar(d) : d \in 0..9}
DigitVal(c) == CHOOSE d \in 0..9 : DigitChar(d) = c

RECURSIVE DecimalValue(_)
DecimalValue(s) ==
    IF s = <<>> THEN 0
    ELSE 10 * DecimalValue(SubSeq(s, 1, Len(s) - 1)) + DigitVal(s[Len(s)])

\* s reads d..d.dd, without a superfluous leading zero
IsFixed2(s) ==
    /\ Len(s) >= 4
    /\ s[Len(s) - 2] = "."
    /\ \A k \in (1..Len(s)) \ {Len(s) - 2} : s[k] \in Digits
    /\ Len(s) > 4 => s[1] # "0"

\* the number s reads, in hundredths
Hundredths(s) ==
    100 * DecimalValue(SubSeq(s, 1, Len(s) - 3))
      + 10 * DigitVal(s[Len(s) - 1]) + DigitVal(s[Len(s)])

\* s is the sample m * 2^-8 rounded to two decimals
RendersSample(s, m) ==
    /\ IsFixed2(s)
    /\ 2 * Abs(100 * m - F64One * Hundredths(s)) <= F64One

\* distance of two phases on the circle of circumference 2
CircDist(a, b) ==
    IF Abs(a - b) <= F32One THEN Abs(a - b) ELSE 2 * F32One - Abs(a - b)

\* the marker of the element a system is written for
RoleOf(sys) ==
    CASE sys = "text_update_system" -> "FpsText"
      [] sys = "text_color_system" -> "ColorText"
      [] sys = "text_wave_system" -> "WavyText"

----------------------------------------------------------------------------
(* C1: when the FPS sample is absent, a run of text_update_system leaves   *)
(* every section of the FpsText element as it was.                         *)
C1_AbsentSampleKeepsText ==
    [][(Stepped("text_update_system") /\ SampleAbsent)
          => \A e \in Elements("FpsText") : world'[e] = world[e]]_vars

C1_Witness ==
    /\ HasRun("text_update_system")
    /\ SampleAbsent
    /\ \E e \in Elements("FpsText") : world[e].text[2].value # <<>>

(* C2: when the FPS sample is present, a run of text_update_system sets    *)
(* section 1 of the FpsText element to the sample written with two         *)
(* fraction digits, rounded to the nearest hundredth; 59.996 gives "60.00" *)
C2_PresentSampleRendered ==
    [][(Stepped("text_update_system") /\ ~SampleAbsent)
          => \A e \in Elements("FpsText") :
                /\ RendersSample(world'[e].text[2].value, diagnostics["fps"][1])
                /\ diagnostics["fps"] = <<15359>>
                      => world'[e].text[2].value = <<"6", "0", ".", "0", "0">>]_vars

C2_Witness ==
    /\ HasRun("text_update_system")
    /\ diagnostics["fps"] = <<15359>>
    /\ \E e \in Elements("FpsText") :
          world[e].text[2].value = <<"6", "0", ".", "0", "0">>

(* C3: a run of text_color_system at elapsed time t sets the color of      *)
(* section 0 of the ColorText element to (sin(1.25t)/2+0.5,                *)
(* sin(0.75t)/2+0.5, sin(0.5t)/2+0.5); every channel is in [0,1], and at   *)
(* t = 0 the color is (0.5, 0.5, 0.5).                                     *)
C3_PulsingColor ==
    [][Stepped("text_color_system")
          => \A e \in Elements("ColorText") :
                LET c == world'[e].text[1].color IN
                /\ c.r = Sin(ToAngle(F32MulLit(5, 4, elapsed))) + SinOne
                /\ c.g = Sin(ToAngle(F32MulLit(3, 4, elapsed))) + SinOne
                /\ c.b = Sin(ToAngle(F32MulLit(1, 2, elapsed))) + SinOne
                /\ \A ch \in {c.r, c.g, c.b} : 0 <= ch /\ ch <= ColorOne
                /\ elapsed = 0 => c = Srgb(SinOne, SinOne, SinOne)]_vars

C3_Witness ==
    /\ HasRun("text_color_system")
    /\ elapsed > 0
    /\ \E e \in Elements("ColorText") :
          LET c == world[e].text[1].color IN
          c.r > c.g /\ c.g > c.b /\ c.b > SinOne

(* C4, as stated: in every state from setup on, the y offset of every      *)
(* WavyText section is in [-40, 40].                                       *)
C4_OffsetRangeAlways ==
    pc # "Startup"
      => \A e \in Elements("WavyText") : \A k \in 1..Len(world[e].text) :
            Abs(world[e].text[k].offset[2]) <= 40 * SinOne

(* C4, amended: once text_wave_system has run, the y offset of every       *)
(* WavyText section is in [-40, 40].                                       *)
C4_OffsetRangeAfterWave ==
    WaveHasRun
      => \A e \in Elements("WavyText") : \A k \in 1..Len(world[e].text) :
            Abs(world[e].text[k].offset[2]) <= 40 * SinOne

C4_Witness ==
    /\ WaveHasRun
    /\ \E e \in Elements("WavyText") :
          /\ \E k \in 1..Len(world[e].text) :
                world[e].text[k].offset[2] = 40 * SinOne
          /\ \E k \in 1..Len(world[e].text) :
                world[e].text[k].offset[2] = 0 - 40 * SinOne

(* C5, as stated: after text_wave_system, sections i and i+20 have the     *)
(* same phase and the same offset.                                         *)
C5_PeriodTwentyExact ==
    HasRun("text_wave_system")
      => \A e \in Elements("WavyText") :
            \A k \in 1..(Len(world[e].text) - 20) :
               /\ wave_seconds[e][k] = wave_seconds[e][k + 20]
               /\ world[e].text[k].offset = world[e].text[k + 20].offset

(* C5, amended: after text_wave_system at time t < 6, the phase of section *)
(* i is the f32 (t + i/10) % 2 with / and + each rounded to f32, its       *)
(* offset is (0, sin(phase * pi) * 40), and the phases of sections i and   *)
(* i+20 agree up to rounding: they are at most 2^-19 apart modulo 2.       *)
C5_PeriodTwentyRounded ==
    HasRun("text_wave_system")
      => \A e \in Elements("WavyText") :
            /\ \A k \in 1..Len(world[e].text) :
                  /\ wave_seconds[e][k] =
                        (F32Add(elapsed, F32Div(k - 1, 10))) % (2 * F32One)
                  /\ world[e].text[k].offset = WaveOffset(wave_seconds[e][k])
            /\ \A k \in 1..(Len(world[e].text) - 20) :
                  CircDist(wave_seconds[e][k], wave_seconds[e][k + 20])
                     <= F32One \div 2^19

C5_Witness ==
    /\ HasRun("text_wave_system")
    /\ \E e \in Elements("WavyText") :
          /\ Len(world[e].text) = NumWavySections
          /\ \E k \in 1..(Len(world[e].text) - 20) :
                wave_seconds[e][k] # wave_seconds[e][k + 20]
          /\ \E k \in 1..(Len(world[e].text) - 20) :
                wave_seconds[e][k] = wave_seconds[e][k + 20]

(* C6: each Update system is idempotent: run again in a frame whose        *)
(* elapsed time and FPS sample equal those of the previous frame, it       *)
(* leaves every section of every element as its previous run left it.      *)
C6_Idempotent ==
    [][\A sys \in Systems :
          (Stepped(sys) /\ prev_in = <<CurrentInputs>>) => world' = world]_vars

C6_Witness ==
    /\ ran = Systems
    /\ prev_in = <<CurrentInputs>>
    /\ elapsed > 0
    /\ ~SampleAbsent

(* C7: the three Update systems of a frame commute: each changes only the  *)
(* element of its own marker, and whatever the order, the frame ends in    *)
(* the state obtained by running update, color, wave in that order.        *)
C7_OrderIndependent ==
    [][/\ \A sys \in Systems :
             Stepped(sys)
               => \A e \in DOMAIN world :
                     world'[e] # world[e] => world[e].marker = RoleOf(sys)
       /\ (ran # Systems /\ ran' = Systems)
             => world' = text_wave_system(
                            text_color_system(
                               text_update_system(frame_start, diagnostics),
                               elapsed),
                            elapsed)]_vars

C7_Witness ==
    /\ ran = Systems
    /\ world # frame_start
    /\ ~SampleAbsent
    /\ \E e \in Elements("FpsText") : frame_start[e] # world[e]
    /\ \E e \in Elements("ColorText") : frame_start[e] # world[e]
    /\ \E e \in Elements("WavyText") : frame_start[e] # world[e]

(* C8, as stated: in every state from setup on, the WavyText offsets and   *)
(* the ColorText color are the functions of the current elapsed time that  *)
(* the systems compute.                                                    *)
C8_FunctionOfTimeAlways ==
    pc # "Startup"
      => /\ world = text_wave_system(world, elapsed)
         /\ world = text_color_system(world, elapsed)

(* C8, amended: in every state where text_wave_system (text_color_system)  *)
(* has run in the current frame, the WavyText offsets (the ColorText       *)
(* color) are that function of the current elapsed time, whatever the      *)
(* earlier frames were.                                                    *)
C8_FunctionOfTimeAfterRun ==
    /\ HasRun("text_wave_system")
          => \A e \in Elements("WavyText") : \A k \in 1..Len(world[e].text) :
                world[e].text[k].offset = WaveOffset(WavePhase(elapsed, k - 1))
    /\ HasRun("text_color_system")
          => \A e \in Elements("ColorText") :
                world[e].text[1].color = PulseColor(elapsed)

C8_Witness ==
    /\ HasRun("text_wave_system")
    /\ HasRun("text_color_system")
    /\ prev_in # <<>>
    /\ prev_in[1].elapsed # elapsed

(* C9: at the end of every frame, and after setup, section 1 of the        *)
(* FpsText element reads the most recent present sample with two decimals, *)
(* and is empty if no sample has been present so far.                      *)
C9_LatestPresentSample ==
    (pc = "First" \/ HasRun("text_update_system"))
      => \A e \in Elements("FpsText") :
            IF last_present = <<>>
            THEN world[e].text[2].value = <<>>
            ELSE RendersSample(world[e].text[2].value, last_present[1])

C9_Witness ==
    /\ pc = "First"
    /\ ran = Systems
    /\ SampleAbsent
    /\ last_present # <<>>
    /\ prev_in # <<>>

(* C10: after setup the entities, their markers and their numbers of       *)
(* sections (1, 2, 100) never change, and every field keeps its setup      *)
(* value except the color of ColorText section 0, the text of FpsText      *)
(* section 1 and the offsets of the WavyText sections.                     *)
C10_Frame ==
    pc # "Startup"
      => \E default_font \in BOOLEAN :
            LET s == SetupWorld(default_font) IN
            /\ DOMAIN world = DOMAIN s
            /\ \A e \in DOMAIN s :
                  /\ world[e].marker = s[e].marker
                  /\ DOMAIN world[e].text = DOMAIN s[e].text
                  /\ s[e].marker = "ColorText" => Len(world[e].text) = 1
                  /\ s[e].marker = "FpsText" => Len(world[e].text) = 2
                  /\ s[e].marker = "WavyText" => Len(world[e].text) = 100
                  /\ \A k \in DOMAIN s[e].text :
                        LET now == world[e].text[k]
                            was == s[e].text[k] IN
                        /\ now.font = was.font
                        /\ now.font_size = was.font_size
                        /\ (s[e].marker = "FpsText" /\ k = 2)
                              \/ now.value = was.value
                        /\ (s[e].marker = "ColorText" /\ k = 1)
                              \/ now.color = was.color
                        /\ s[e].marker = "WavyText"
                              \/ now.offset = was.offset

C10_Witness ==
    /\ ran = Systems
    /\ prev_in # <<>>
    /\ \E e \in Elements("FpsText") :
          /\ world[e].text[1].value = FpsLabel
          /\ world[e].text[2].value # <<>>
    /\ \E e \in Elements("ColorText") : world[e].text[1].color # WHITE
    /\ \E e \in Elements("WavyText") :
          world[e].text[2].offset # Vec2(0, SinOne)

====
